---- MODULE Spec2Model ----
(***************************************************************************)
(* Model of package retle (retle.go): an exponential backoff timer         *)
(* (ExpTimer) with NextDuration, Sleep and the Retry loop.                 *)
(*                                                                         *)
(* Durations are integers (nanoseconds, as time.Duration).  A multiplier   *)
(* is a rational <<num, den>> that a float64 represents exactly (1, 1.5,   *)
(* 2); float64(interval) * multiplier is taken as the exact product (true  *)
(* of the code below 2^53 ns) and the conversion back to time.Duration     *)
(* truncates it toward zero.  time.Duration is an int64; the model keeps   *)
(* it a signed integer of the model checker's width, 32 bits, so           *)
(* MaxDuration stands for math.MaxInt64.  A product outside the range has  *)
(* no defined conversion in Go (the result is implementation-dependent):   *)
(* the model lets it be either end of the range, the minimum as amd64      *)
(* produces it and the maximum as saturating targets (arm64) do.           *)
(*                                                                         *)
(* A goroutine (Procs) is at one place of the code (pc):                   *)
(*   "idle"      not inside any call of the package                        *)
(*   "invoke"    Retry, line 53: about to call retryFunc                   *)
(*   "select"    Retry, line 57: about to poll ctx.Done()                  *)
(*   "nd_read"   NextDuration, line 40: about to read e.interval           *)
(*   "nd_mul"    NextDuration, line 41: about to read e.interval and       *)
(*               compute the product                                       *)
(*   "nd_store"  NextDuration, line 41: about to store the product         *)
(*   "sleeping"  Sleep, line 47: inside time.Sleep                         *)
(*   "done"      the call has returned                                     *)
(***************************************************************************)
EXTENDS Integers, Sequences, FiniteSets, TLC

\* ------------------------------------------------------------------ bounds
\* the operation signals retry at most MaxRetries times per Retry call while
\* its context is not done
MaxRetries == 3
\* calls start only while the timer has room for them under MaxND completed
\* NextDuration calls
MaxND == 10
\* a timer is the receiver of at most MaxCalls Retry calls
MaxCalls == 2

\* ------------------------------------------------------- program constants
DefaultInitialInterval == 500000000
DefaultMultiplier == <<3, 2>>

\* ------------------------------------------------------------- input sets
Procs == {"g1", "g2"}
Timers == {"e1", "e2", "l1", "l2"}
\* the timer that the local variable e of p's package-level Retry call
\* (line 69) points to
Frame(p) == IF p = "g1" THEN "l1" ELSE "l2"
Intervals == {0, 1, 2, 5}
Multipliers == {<<1, 1>>, <<3, 2>>, <<2, 1>>}
\* intervals from a quarter of the largest time.Duration upward
LargeIntervals == {536870912, 715827882, 1073741824, 2147483647}
\* error values a retryFunc returns ("nil" is Go's nil error)
OpErrs == {"nil", "errA", "errB"}
\* what ctx.Err() returns
CtxErrs == {"nil", "Canceled", "DeadlineExceeded"}

VARIABLES
    timer,          \* timer[t]: the ExpTimer struct, [interval, multiplier]
    pc,             \* pc[p]: where goroutine p is
    op,             \* op[p]: the exported function p called last
    tm,             \* tm[p]: the receiver e of p's call
    isRetry,        \* isRetry[p], err[p]: Retry's locals (line 53)
    err,
    beforeInterval, \* beforeInterval[p]: NextDuration's local (line 40)
    product,        \* product[p]: the value of line 41's right-hand side
    ret,            \* ret[p]: the error p's Retry call returned
    ctxErr,         \* ctxErr[p]: ctx.Err() of the context p passed to Retry
    ctxLog,         \* history: cancel / deadline events of p's context, in order
    calls,          \* history: invocations of retryFunc in p's Retry call
    retries,        \* history: how many of them signalled retry
    checks,         \* history: polls of ctx.Done() in p's Retry call
    sleeps,         \* history: the durations p's call passed to time.Sleep
    hitInSleep,     \* history: p's context became done by cancel during time.Sleep
    doneAt,         \* history: calls[p] and where p was when its context became done
    startTimer,     \* history: the receiver's fields when p's call started
    startND,        \* history: nd of the receiver when p's call started
    created,        \* history: created[t], the timer as NewExpTimer built it
    nd,             \* history: nd[t], completed NextDuration calls on t
    durs,           \* history: durs[t], the values they returned, in order
    retryCalls,     \* history: retryCalls[t], Retry calls started on t
    raced           \* history: raced[t], two NextDuration calls on t overlapped

timerVars == <<timer, created, nd, durs, retryCalls, raced>>
ctxVars == <<ctxErr, ctxLog, hitInSleep, doneAt>>
ndLocals == <<beforeInterval, product>>
retryLocals == <<isRetry, err, ret>>
retryHist == <<calls, retries, checks>>
startVars == <<op, tm, startTimer, startND>>
vars == <<timer, pc, op, tm, isRetry, err, beforeInterval, product, ret,
          ctxErr, ctxLog, calls, retries, checks, sleeps, hitInSleep, doneAt,
          startTimer, startND, created, nd, durs, retryCalls, raced>>

\* ------------------------------------------------------------ the timer
\* time.Duration(float64(i) * m) for i >= 0 and m = num/den: the exact
\* product truncated toward zero (written so that no intermediate value
\* exceeds the product)
MulTrunc(i, m) == (i \div m[2]) * m[1] + ((i % m[2]) * m[1]) \div m[2]

NewExpTimer(interval, multiplier) ==
    [interval |-> interval, multiplier |-> multiplier]

DefaultExpTimer == NewExpTimer(DefaultInitialInterval, DefaultMultiplier)

\* the largest and the smallest time.Duration
MaxDuration == 2147483647
MinDuration == -MaxDuration - 1

\* for i >= 0: the truncated product i * m is at most MaxDuration
Fits(i, m) ==
    (i \div m[2]) <= (MaxDuration - ((i % m[2]) * m[1]) \div m[2]) \div m[1]

\* the values time.Duration(float64(i) * m) can take (line 41)
DurationOf(i, m) ==
    IF i >= 0
       THEN IF Fits(i, m) THEN {MulTrunc(i, m)}
                          ELSE {MinDuration, MaxDuration}
       ELSE IF i # MinDuration /\ Fits(-i, m) THEN {-MulTrunc(-i, m)}
                                               ELSE {MinDuration}

\* n successive NextDuration multiplications applied to interval d
RECURSIVE Grow(_, _, _)
Grow(d, m, n) == IF n = 0 THEN d ELSE Grow(MulTrunc(d, m), m, n - 1)

\* doneAt of a context that is not done
NotDone == [calls |-> -1, pc |-> "none"]

\* where goroutine p is: inside e.Sleep() (lines 46-48, NextDuration
\* included) or in the rest of Retry's loop
Where(p) ==
    IF pc[p] \in {"nd_read", "nd_mul", "nd_store", "sleeping"} THEN "sleep"
                                                                ELSE "loop"

\* ------------------------------------------------------------------ Init
\* e1 is built by NewExpTimer from any interval and multiplier of the input
\* sets, e2 by DefaultExpTimer; no goroutine is inside a call.
InitWith(intervals, second) ==
    /\ \E d \in intervals, m \in Multipliers :
          timer = [t \in Timers |->
                     IF t = "e1" THEN NewExpTimer(d, m) ELSE second]
    /\ created = timer
    /\ nd = [t \in Timers |-> 0]
    /\ durs = [t \in Timers |-> << >>]
    /\ retryCalls = [t \in Timers |-> 0]
    /\ raced = [t \in Timers |-> FALSE]
    /\ pc = [p \in Procs |-> "idle"]
    /\ op = [p \in Procs |-> "none"]
    /\ tm = [p \in Procs |-> "e1"]
    /\ isRetry = [p \in Procs |-> FALSE]
    /\ err = [p \in Procs |-> "nil"]
    /\ beforeInterval = [p \in Procs |-> 0]
    /\ product = [p \in Procs |-> 0]
    /\ ret = [p \in Procs |-> "nil"]
    /\ ctxErr = [p \in Procs |-> "nil"]
    /\ ctxLog = [p \in Procs |-> << >>]
    /\ calls = [p \in Procs |-> 0]
    /\ retries = [p \in Procs |-> 0]
    /\ checks = [p \in Procs |-> 0]
    /\ sleeps = [p \in Procs |-> << >>]
    /\ hitInSleep = [p \in Procs |-> FALSE]
    /\ doneAt = [p \in Procs |-> NotDone]
    /\ startTimer = [p \in Procs |-> NewExpTimer(0, <<1, 1>>)]
    /\ startND = [p \in Procs |-> 0]

Init == InitWith(Intervals, DefaultExpTimer)

\* e1 is built with an interval within two doublings of MaxDuration
InitLarge == InitWith(LargeIntervals, DefaultExpTimer)

\* ------------------------------------------------------- entering a call
\* what every call resets: the locals and the per-call history of p; the
\* receiver is timer t, holding value e after nCalls NextDuration calls
EnterWith(p, t, name, first, c, e, nCalls) ==
    /\ pc[p] \in {"idle", "done"}
    /\ pc' = [pc EXCEPT ![p] = first]
    /\ op' = [op EXCEPT ![p] = name]
    /\ tm' = [tm EXCEPT ![p] = t]
    /\ isRetry' = [isRetry EXCEPT ![p] = FALSE]
    /\ err' = [err EXCEPT ![p] = "nil"]
    /\ beforeInterval' = [beforeInterval EXCEPT ![p] = 0]
    /\ product' = [product EXCEPT ![p] = 0]
    /\ ret' = [ret EXCEPT ![p] = "nil"]
    /\ ctxErr' = [ctxErr EXCEPT ![p] = c]
    /\ ctxLog' = [ctxLog EXCEPT ![p] =
                    IF c = "Canceled" THEN <<"cancel">>
                    ELSE IF c = "DeadlineExceeded" THEN <<"deadline">>
                    ELSE << >>]
    /\ calls' = [calls EXCEPT ![p] = 0]
    /\ retries' = [retries EXCEPT ![p] = 0]
    /\ checks' = [checks EXCEPT ![p] = 0]
    /\ sleeps' = [sleeps EXCEPT ![p] = << >>]
    /\ hitInSleep' = [hitInSleep EXCEPT ![p] = FALSE]
    /\ doneAt' = [doneAt EXCEPT ![p] =
                    IF c = "nil" THEN NotDone ELSE [calls |-> 0, pc |-> "entry"]]
    /\ startTimer' = [startTimer EXCEPT ![p] = e]
    /\ startND' = [startND EXCEPT ![p] = nCalls]

\* a call on an existing timer
Enter(p, t, name, first, c) == EnterWith(p, t, name, first, c, timer[t], nd[t])

\* CallRetry with Retry resetting the receiver's interval to the one it was
\* constructed with
CallRetry_ResetsTimer(p, t, c) ==
    /\ nd[t] + MaxRetries <= MaxND
    /\ retryCalls[t] < MaxCalls
    /\ Enter(p, t, "Retry", "invoke", c)
    /\ retryCalls' = [retryCalls EXCEPT ![t] = @ + 1]
    /\ timer' = [timer EXCEPT ![t].interval = created[t].interval]
    /\ UNCHANGED <<created, nd, durs, raced>>

\* CallRetry with the loop body starting at the select: the context is
\* polled (and a sleep made) before the first attempt
CallRetry_ChecksFirst(p, t, c) ==
    /\ nd[t] + MaxRetries <= MaxND
    /\ retryCalls[t] < MaxCalls
    /\ Enter(p, t, "Retry", "select", c)
    /\ retryCalls' = [retryCalls EXCEPT ![t] = @ + 1]
    /\ UNCHANGED <<timer, created, nd, durs, raced>>

\* e.Retry(ctx, retryFunc) is called (line 51); the context handed in is
\* not done, or already cancelled, or already past its deadline.
CallRetry(p, t, c) ==
    /\ nd[t] + MaxRetries <= MaxND
    /\ retryCalls[t] < MaxCalls
    /\ Enter(p, t, "Retry", "invoke", c)
    /\ retryCalls' = [retryCalls EXCEPT ![t] = @ + 1]
    /\ UNCHANGED <<timer, created, nd, durs, raced>>

\* the package-level Retry running on a timer built once and kept between
\* calls instead of one built per call
PkgRetry_ReusesTimer(p, c) ==
    /\ nd[Frame(p)] + MaxRetries <= MaxND
    /\ retryCalls[Frame(p)] < MaxCalls
    /\ Enter(p, Frame(p), "Retry", "invoke", c)
    /\ retryCalls' = [retryCalls EXCEPT ![Frame(p)] = @ + 1]
    /\ UNCHANGED <<timer, created, nd, durs, raced>>

\* the package-level Retry(ctx, retryFunc) is called (lines 68-71):
\* e := DefaultExpTimer() builds a timer no other goroutine can reach, and
\* e.Retry(ctx, retryFunc) runs on it.  retryCalls counts the package-level
\* calls of p.
PkgRetry(p, c) ==
    /\ retryCalls[Frame(p)] < MaxCalls
    /\ EnterWith(p, Frame(p), "Retry", "invoke", c, DefaultExpTimer, 0)
    /\ timer' = [timer EXCEPT ![Frame(p)] = DefaultExpTimer]
    /\ created' = [created EXCEPT ![Frame(p)] = DefaultExpTimer]
    /\ nd' = [nd EXCEPT ![Frame(p)] = 0]
    /\ durs' = [durs EXCEPT ![Frame(p)] = << >>]
    /\ raced' = [raced EXCEPT ![Frame(p)] = FALSE]
    /\ retryCalls' = [retryCalls EXCEPT ![Frame(p)] = @ + 1]

\* e.NextDuration() is called directly (line 39)
CallNextDuration(p, t) ==
    /\ nd[t] < MaxND
    /\ Enter(p, t, "NextDuration", "nd_read", "nil")
    /\ UNCHANGED timerVars

\* e.Sleep() is called directly (line 46)
CallSleep(p, t) ==
    /\ nd[t] < MaxND
    /\ Enter(p, t, "Sleep", "nd_read", "nil")
    /\ UNCHANGED timerVars

\* ------------------------------------------------------------------ Retry
\* Invoke with a stop returning nil whatever error retryFunc gave
Invoke_NilOnStop(p) ==
    /\ pc[p] = "invoke"
    /\ \E r \in BOOLEAN, e \in OpErrs :
          /\ r => (retries[p] < MaxRetries \/ ctxErr[p] # "nil")
          /\ isRetry' = [isRetry EXCEPT ![p] = r]
          /\ err' = [err EXCEPT ![p] = e]
          /\ calls' = [calls EXCEPT ![p] = @ + 1]
          /\ retries' = [retries EXCEPT ![p] = IF r THEN @ + 1 ELSE @]
          /\ IF ~r
                THEN /\ ret' = [ret EXCEPT ![p] = "nil"]
                     /\ pc' = [pc EXCEPT ![p] = "done"]
                ELSE /\ ret' = ret
                     /\ pc' = [pc EXCEPT ![p] = "select"]
    /\ UNCHANGED <<timerVars, ctxVars, ndLocals, startVars, checks, sleeps>>

\* Invoke with line 54 reading "if !isRetry && err == nil": a stop that
\* carries an error goes on to the select like a retry
Invoke_RetriesOnError(p) ==
    /\ pc[p] = "invoke"
    /\ \E r \in BOOLEAN, e \in OpErrs :
          /\ r => (retries[p] < MaxRetries \/ ctxErr[p] # "nil")
          /\ isRetry' = [isRetry EXCEPT ![p] = r]
          /\ err' = [err EXCEPT ![p] = e]
          /\ calls' = [calls EXCEPT ![p] = @ + 1]
          /\ retries' = [retries EXCEPT ![p] = IF r THEN @ + 1 ELSE @]
          /\ IF ~r /\ e = "nil"
                THEN /\ ret' = [ret EXCEPT ![p] = e]
                     /\ pc' = [pc EXCEPT ![p] = "done"]
                ELSE /\ ret' = ret
                     /\ pc' = [pc EXCEPT ![p] = "select"]
    /\ UNCHANGED <<timerVars, ctxVars, ndLocals, startVars, checks, sleeps>>

\* lines 53-56: retryFunc runs and returns (r, e); Retry returns e when r
\* is false and goes on to the select otherwise.
Invoke(p) ==
    /\ pc[p] = "invoke"
    /\ \E r \in BOOLEAN, e \in OpErrs :
          /\ r => (retries[p] < MaxRetries \/ ctxErr[p] # "nil")
          /\ isRetry' = [isRetry EXCEPT ![p] = r]
          /\ err' = [err EXCEPT ![p] = e]
          /\ calls' = [calls EXCEPT ![p] = @ + 1]
          /\ retries' = [retries EXCEPT ![p] = IF r THEN @ + 1 ELSE @]
          /\ IF ~r
                THEN /\ ret' = [ret EXCEPT ![p] = e]
                     /\ pc' = [pc EXCEPT ![p] = "done"]
                ELSE /\ ret' = ret
                     /\ pc' = [pc EXCEPT ![p] = "select"]
    /\ UNCHANGED <<timerVars, ctxVars, ndLocals, startVars, checks, sleeps>>

\* Select returning nil where line 59 returns ctx.Err()
Select_ReturnsNil(p) ==
    /\ pc[p] = "select"
    /\ checks' = [checks EXCEPT ![p] = @ + 1]
    /\ IF ctxErr[p] # "nil"
          THEN /\ ret' = [ret EXCEPT ![p] = "nil"]
               /\ pc' = [pc EXCEPT ![p] = "done"]
          ELSE /\ ret' = ret
               /\ pc' = [pc EXCEPT ![p] = "nd_read"]
    /\ UNCHANGED <<timerVars, ctxVars, ndLocals, startVars, isRetry, err,
                   calls, retries, sleeps>>

\* Select returning context.Canceled whatever made the context done
Select_ReturnsCanceled(p) ==
    /\ pc[p] = "select"
    /\ checks' = [checks EXCEPT ![p] = @ + 1]
    /\ IF ctxErr[p] # "nil"
          THEN /\ ret' = [ret EXCEPT ![p] = "Canceled"]
               /\ pc' = [pc EXCEPT ![p] = "done"]
          ELSE /\ ret' = ret
               /\ pc' = [pc EXCEPT ![p] = "nd_read"]
    /\ UNCHANGED <<timerVars, ctxVars, ndLocals, startVars, isRetry, err,
                   calls, retries, sleeps>>

\* Select with e.NextDuration() evaluated before ctx.Done() is polled: the
\* timer advances even when the call returns the context's error
Select_AdvancesTimer(p) ==
    /\ pc[p] = "select"
    /\ checks' = [checks EXCEPT ![p] = @ + 1]
    /\ IF ctxErr[p] # "nil"
          THEN /\ ret' = [ret EXCEPT ![p] = ctxErr[p]]
               /\ pc' = [pc EXCEPT ![p] = "done"]
               /\ timer' = [timer EXCEPT ![tm[p]].interval =
                               MulTrunc(@, timer[tm[p]].multiplier)]
               /\ nd' = [nd EXCEPT ![tm[p]] = @ + 1]
               /\ durs' = [durs EXCEPT ![tm[p]] =
                              Append(@, timer[tm[p]].interval)]
          ELSE /\ ret' = ret
               /\ pc' = [pc EXCEPT ![p] = "nd_read"]
               /\ UNCHANGED <<timer, nd, durs>>
    /\ UNCHANGED <<created, retryCalls, raced, ctxVars, ndLocals, startVars,
                   isRetry, err, calls, retries, sleeps>>

\* lines 57-62: the select polls ctx.Done(); done: return ctx.Err();
\* otherwise the default branch enters e.Sleep(), that is e.NextDuration().
Select(p) ==
    /\ pc[p] = "select"
    /\ checks' = [checks EXCEPT ![p] = @ + 1]
    /\ IF ctxErr[p] # "nil"
          THEN /\ ret' = [ret EXCEPT ![p] = ctxErr[p]]
               /\ pc' = [pc EXCEPT ![p] = "done"]
          ELSE /\ ret' = ret
               /\ pc' = [pc EXCEPT ![p] = "nd_read"]
    /\ UNCHANGED <<timerVars, ctxVars, ndLocals, startVars, isRetry, err,
                   calls, retries, sleeps>>

\* ----------------------------------------------------------- NextDuration
\* line 40: beforeInterval := e.interval
NextDurationRead(p) ==
    /\ pc[p] = "nd_read"
    /\ beforeInterval' = [beforeInterval EXCEPT ![p] = timer[tm[p]].interval]
    /\ pc' = [pc EXCEPT ![p] = "nd_mul"]
    /\ raced' = [raced EXCEPT ![tm[p]] =
                    @ \/ \E q \in Procs \ {p} :
                            tm[q] = tm[p] /\ pc[q] \in {"nd_mul", "nd_store"}]
    /\ UNCHANGED <<timer, created, nd, durs, retryCalls, ctxVars, retryLocals,
                   retryHist, startVars, product, sleeps>>

\* NextDurationMul with the multiplication left out
NextDurationMul_NoGrowth(p) ==
    /\ pc[p] = "nd_mul"
    /\ product' = [product EXCEPT ![p] = timer[tm[p]].interval]
    /\ pc' = [pc EXCEPT ![p] = "nd_store"]
    /\ UNCHANGED <<timerVars, ctxVars, retryLocals, retryHist, startVars,
                   beforeInterval, sleeps>>

\* line 41, right-hand side: time.Duration(float64(e.interval) * e.multiplier)
NextDurationMul(p) ==
    /\ pc[p] = "nd_mul"
    /\ \E v \in DurationOf(timer[tm[p]].interval, timer[tm[p]].multiplier) :
          product' = [product EXCEPT ![p] = v]
    /\ pc' = [pc EXCEPT ![p] = "nd_store"]
    /\ UNCHANGED <<timerVars, ctxVars, retryLocals, retryHist, startVars,
                   beforeInterval, sleeps>>

\* NextDurationStore returning the interval after the multiplication
NextDurationStore_ReturnsAfter(p) ==
    /\ pc[p] = "nd_store"
    /\ timer' = [timer EXCEPT ![tm[p]].interval = product[p]]
    /\ nd' = [nd EXCEPT ![tm[p]] = @ + 1]
    /\ durs' = [durs EXCEPT ![tm[p]] = Append(@, product[p])]
    /\ IF op[p] = "NextDuration"
          THEN /\ pc' = [pc EXCEPT ![p] = "done"]
               /\ sleeps' = sleeps
          ELSE /\ pc' = [pc EXCEPT ![p] = "sleeping"]
               /\ sleeps' = [sleeps EXCEPT ![p] = Append(@, product[p])]
    /\ UNCHANGED <<created, retryCalls, raced, ctxVars, ndLocals, retryLocals,
                   retryHist, startVars>>

\* NextDurationStore with the interval kept in one place for all timers (a
\* package-level variable instead of the struct field)
NextDurationStore_SharedInterval(p) ==
    /\ pc[p] = "nd_store"
    /\ timer' = [t \in Timers |-> [timer[t] EXCEPT !.interval = product[p]]]
    /\ nd' = [nd EXCEPT ![tm[p]] = @ + 1]
    /\ durs' = [durs EXCEPT ![tm[p]] = Append(@, beforeInterval[p])]
    /\ IF op[p] = "NextDuration"
          THEN /\ pc' = [pc EXCEPT ![p] = "done"]
               /\ sleeps' = sleeps
          ELSE /\ pc' = [pc EXCEPT ![p] = "sleeping"]
               /\ sleeps' = [sleeps EXCEPT ![p] = Append(@, beforeInterval[p])]
    /\ UNCHANGED <<created, retryCalls, raced, ctxVars, ndLocals, retryLocals,
                   retryHist, startVars>>

\* line 41, the assignment, and line 42: return beforeInterval.  A direct
\* caller has its result; Sleep passes it to time.Sleep (line 47).
NextDurationStore(p) ==
    /\ pc[p] = "nd_store"
    /\ timer' = [timer EXCEPT ![tm[p]].interval = product[p]]
    /\ nd' = [nd EXCEPT ![tm[p]] = @ + 1]
    /\ durs' = [durs EXCEPT ![tm[p]] = Append(@, beforeInterval[p])]
    /\ IF op[p] = "NextDuration"
          THEN /\ pc' = [pc EXCEPT ![p] = "done"]
               /\ sleeps' = sleeps
          ELSE /\ pc' = [pc EXCEPT ![p] = "sleeping"]
               /\ sleeps' = [sleeps EXCEPT ![p] = Append(@, beforeInterval[p])]
    /\ UNCHANGED <<created, retryCalls, raced, ctxVars, ndLocals, retryLocals,
                   retryHist, startVars>>

\* ------------------------------------------------------------------ Sleep
\* Wake with the sleep raced against ctx.Done(): a context found done when
\* the sleep ends makes Retry return its error at once
Wake_Preemptible(p) ==
    /\ pc[p] = "sleeping"
    /\ IF op[p] = "Retry" /\ ctxErr[p] # "nil"
          THEN /\ pc' = [pc EXCEPT ![p] = "done"]
               /\ ret' = [ret EXCEPT ![p] = ctxErr[p]]
          ELSE /\ pc' = [pc EXCEPT ![p] =
                          IF op[p] = "Retry" THEN "invoke" ELSE "done"]
               /\ ret' = ret
    /\ UNCHANGED <<timerVars, ctxVars, ndLocals, isRetry, err, retryHist,
                   startVars, sleeps>>

\* line 47: time.Sleep returns; Sleep returns, and inside Retry the loop
\* starts over (line 52).
Wake(p) ==
    /\ pc[p] = "sleeping"
    /\ pc' = [pc EXCEPT ![p] = IF op[p] = "Retry" THEN "invoke" ELSE "done"]
    /\ UNCHANGED <<timerVars, ctxVars, ndLocals, retryLocals, retryHist,
                   startVars, sleeps>>

\* ------------------------------------------------------------ the context
\* the context's cancel function is called while p's Retry call runs; the
\* first cause to arrive sets ctx.Err() for good.
Cancel(p) ==
    /\ op[p] = "Retry"
    /\ pc[p] \notin {"idle", "done"}
    /\ \A i \in 1..Len(ctxLog[p]) : ctxLog[p][i] # "cancel"
    /\ ctxLog' = [ctxLog EXCEPT ![p] = Append(@, "cancel")]
    /\ ctxErr' = [ctxErr EXCEPT ![p] = IF @ = "nil" THEN "Canceled" ELSE @]
    /\ hitInSleep' = [hitInSleep EXCEPT ![p] =
                        @ \/ (ctxErr[p] = "nil" /\ pc[p] = "sleeping")]
    /\ doneAt' = [doneAt EXCEPT ![p] =
                    IF ctxErr[p] = "nil"
                       THEN [calls |-> calls[p], pc |-> Where(p)] ELSE @]
    /\ UNCHANGED <<timerVars, pc, ndLocals, retryLocals, retryHist,
                   startVars, sleeps>>

\* the context's deadline passes while p's Retry call runs
Deadline(p) ==
    /\ op[p] = "Retry"
    /\ pc[p] \notin {"idle", "done"}
    /\ \A i \in 1..Len(ctxLog[p]) : ctxLog[p][i] # "deadline"
    /\ ctxLog' = [ctxLog EXCEPT ![p] = Append(@, "deadline")]
    /\ ctxErr' = [ctxErr EXCEPT ![p] =
                    IF @ = "nil" THEN "DeadlineExceeded" ELSE @]
    /\ doneAt' = [doneAt EXCEPT ![p] =
                    IF ctxErr[p] = "nil"
                       THEN [calls |-> calls[p], pc |-> Where(p)] ELSE @]
    /\ UNCHANGED <<timerVars, pc, ndLocals, retryLocals, retryHist,
                   startVars, sleeps, hitInSleep>>

\* --------------------------------------------------------- specifications
\* a step of goroutine p inside a call
Step(p) ==
    \/ Invoke(p)
    \/ Select(p)
    \/ NextDurationRead(p)
    \/ NextDurationMul(p)
    \/ NextDurationStore(p)
    \/ Wake(p)

\* One goroutine, g1, uses one timer, e1: call after call, never two at once.
Next ==
    \/ \E c \in CtxErrs : CallRetry("g1", "e1", c)
    \/ CallNextDuration("g1", "e1")
    \/ CallSleep("g1", "e1")
    \/ \E p \in Procs : Step(p)
    \/ \E p \in Procs : Cancel(p)
    \/ \E p \in Procs : Deadline(p)

Spec == Init /\ [][Next]_vars

\* Two goroutines run one Retry call each at the same time, g1 on e1 and
\* g2 on e2: two separate timer instances.  g1's context can be cancelled,
\* g2's is never done.
InitSeparate == InitWith({1, 2}, NewExpTimer(5, <<3, 2>>))

NextSeparate ==
    \/ pc["g1"] = "idle" /\ CallRetry("g1", "e1", "nil")
    \/ pc["g2"] = "idle" /\ CallRetry("g2", "e2", "nil")
    \/ \E p \in Procs : Step(p)
    \/ Cancel("g1")

SpecSeparate == InitSeparate /\ [][NextSeparate]_vars

\* Two goroutines share the timer e1.  Each makes one call: g1 calls
\* e1.NextDuration(), e1.Sleep() or e1.Retry with a context that is never
\* done, g2 calls e1.NextDuration() or e1.Sleep(), which is all a Retry
\* call does to its timer.  The steps of the two interleave at the read of
\* line 40, the multiplication and the assignment of line 41 (no lock in
\* the code).
InitShared == InitWith({1, 2}, DefaultExpTimer)

NextShared ==
    \/ \E p \in Procs : pc[p] = "idle" /\ CallNextDuration(p, "e1")
    \/ \E p \in Procs : pc[p] = "idle" /\ CallSleep(p, "e1")
    \/ pc["g1"] = "idle" /\ CallRetry("g1", "e1", "nil")
    \/ \E p \in Procs : Step(p)

SpecShared == InitShared /\ [][NextShared]_vars

\* Two goroutines call the package-level Retry at the same time: g1 one
\* call after another with a context that can be cancelled, g2 once with a
\* context that is never done.  e1 and e2 are not used.
InitPkg == InitWith({1}, DefaultExpTimer) /\ timer["e1"].multiplier = <<1, 1>>

NextPkg ==
    \/ PkgRetry("g1", "nil")
    \/ pc["g2"] = "idle" /\ PkgRetry("g2", "nil")
    \/ \E p \in Procs : Step(p)
    \/ Cancel("g1")

SpecPkg == InitPkg /\ [][NextPkg]_vars

\* the same program on a timer whose interval is near the end of the range
SpecOverflow == InitLarge /\ [][Next]_vars

\* The Go scheduler runs every runnable goroutine, time.Sleep returns, and
\* retryFunc is assumed to return: a goroutine inside a call takes its next
\* step.
FairSpec == Spec /\ \A p \in Procs : WF_vars(Step(p))

\* ================================================================= claims
\* the step of p is not the start of a new call
NotEntering(p) == ~(pc[p] \in {"idle", "done"} /\ pc'[p] \notin {"idle", "done"})

InRetry(p) == op[p] = "Retry" /\ pc[p] # "idle"
Returned(p) == op[p] = "Retry" /\ pc[p] = "done"

\* what a returned Retry call leaves alone until the next call starts
Settled(p) ==
    (Returned(p) /\ NotEntering(p)) =>
        /\ pc'[p] = "done"
        /\ ret'[p] = ret[p]
        /\ calls'[p] = calls[p]
        /\ checks'[p] = checks[p]
        /\ sleeps'[p] = sleeps[p]

\* C1: whenever an invocation of retryFunc returns shouldRetry = false with
\* error e (nil or not), on any attempt and whether or not the context is
\* done, Retry returns exactly e in that step: no cancellation check, no
\* sleep, no change of the timer and no further invocation follow.
C1_StopReturnsErr ==
    [][\A p \in Procs :
          /\ (InRetry(p) /\ calls'[p] = calls[p] + 1 /\ ~isRetry'[p]) =>
                /\ pc'[p] = "done"
                /\ ret'[p] = err'[p]
                /\ checks'[p] = checks[p]
                /\ sleeps'[p] = sleeps[p]
                /\ timer' = timer
                /\ nd' = nd
          /\ Settled(p)]_vars

\* a Retry call returned the error of its second or later attempt while its
\* context was done
C1_Witness ==
    \E p \in Procs :
        /\ Returned(p) /\ ~isRetry[p]
        /\ calls[p] >= 2
        /\ ctxErr[p] # "nil"
        /\ err[p] = "errA" /\ ret[p] = "errA"

\* C2: if the context is never done and retryFunc signals retry on its
\* first N invocations and stop with error e on invocation N+1, Retry has
\* invoked it exactly N+1 times and returns e.
C2_StopsAfterN ==
    \A p \in Procs :
        (Returned(p) /\ ctxErr[p] = "nil") =>
            /\ ~isRetry[p]
            /\ calls[p] = retries[p] + 1
            /\ ret[p] = err[p]

\* N = MaxRetries retries, then a stop with an error, context never done
C2_Witness ==
    \E p \in Procs :
        /\ Returned(p) /\ ctxErr[p] = "nil"
        /\ retries[p] = MaxRetries /\ calls[p] = MaxRetries + 1
        /\ ret[p] = "errB"

\* the sum of the first n NextDuration values of a fresh timer (d, m), as
\* the tests compute it (retle_test.go:104-108)
RECURSIVE ExpectedElapsed(_, _, _)
ExpectedElapsed(d, m, n) ==
    IF n = 0 THEN 0 ELSE d + ExpectedElapsed(MulTrunc(d, m), m, n - 1)

RECURSIVE SumSeq(_)
SumSeq(q) == IF q = << >> THEN 0 ELSE Head(q) + SumSeq(Tail(q))

\* C3: in a Retry call on a timer with interval d and multiplier m, one
\* sleep happens between each pair of consecutive attempts and none before
\* the first or after the last; the i-th sleep lasts the i-th NextDuration
\* value of (d, m); with N retries and then a stop (context never done)
\* there are exactly N sleeps and their total is the sum of the first N
\* NextDuration values of a fresh timer (d, m).
C3_SleepsFollowBackoff ==
    \A p \in Procs :
        InRetry(p) =>
            /\ Len(sleeps[p]) =
                  IF pc[p] \in {"invoke", "sleeping"} THEN calls[p]
                                                      ELSE calls[p] - 1
            /\ \A i \in 1..Len(sleeps[p]) :
                  sleeps[p][i] = Grow(startTimer[p].interval,
                                      startTimer[p].multiplier, i - 1)
            /\ (pc[p] = "done" /\ ctxErr[p] = "nil") =>
                  /\ Len(sleeps[p]) = retries[p]
                  /\ SumSeq(sleeps[p]) =
                        ExpectedElapsed(startTimer[p].interval,
                                        startTimer[p].multiplier, retries[p])

\* three retries on a timer (2, 1.5): sleeps of 2, 3 and 4
C3_Witness ==
    \E p \in Procs :
        /\ Returned(p) /\ ctxErr[p] = "nil"
        /\ startTimer[p] = NewExpTimer(2, <<3, 2>>)
        /\ retries[p] = 3
        /\ sleeps[p] = <<2, 3, 4>>

\* C4: if the context is cancelled while Retry waits in time.Sleep, Retry
\* eventually returns, and when retryFunc keeps signalling retry the value
\* returned is the context's cancellation error.
C4_CancelDuringSleep ==
    \A p \in Procs :
        hitInSleep[p] ~>
            (pc[p] = "done" /\ (isRetry[p] => ret[p] = "Canceled"))

\* cancelled during a sleep, one more attempt signalled retry, and the call
\* returned context.Canceled
C4_Witness ==
    \E p \in Procs :
        /\ Returned(p) /\ hitInSleep[p]
        /\ isRetry[p]
        /\ ret[p] = "Canceled"
        /\ calls[p] = Len(sleeps[p]) + 1

\* C5: when retryFunc always signals retry, the error Retry returns names
\* the cause that made the context done first: DeadlineExceeded when the
\* deadline passed first, Canceled when cancel was called first, also when
\* the other cause arrives before Retry's next cancellation check.
C5_FirstCauseReturned ==
    \A p \in Procs :
        (Returned(p) /\ isRetry[p]) =>
            /\ Len(ctxLog[p]) >= 1
            /\ ctxLog[p][1] = "deadline" => ret[p] = "DeadlineExceeded"
            /\ ctxLog[p][1] = "cancel" => ret[p] = "Canceled"

\* cancel came first, the deadline passed too before the check, and the
\* call returned context.Canceled
C5_Witness ==
    \E p \in Procs :
        /\ Returned(p) /\ isRetry[p]
        /\ ctxLog[p] = <<"cancel", "deadline">>
        /\ Len(sleeps[p]) >= 1
        /\ ret[p] = "Canceled"

\* 1, 2, 4, ..., 512 (retle_test.go:35-47)
PowersOfTwo == <<1, 2, 4, 8, 16, 32, 64, 128, 256, 512>>

RECURSIVE Power(_, _)
Power(b, n) == IF n = 0 THEN 1 ELSE b * Power(b, n - 1)

\* C6: on a timer constructed with interval d and multiplier m, the k-th
\* NextDuration call returns d after k-1 successive multiplications by m
\* (d * m^(k-1) for a whole m) and leaves the interval multiplied once
\* more; for (d, m) = (1, 2) the first 10 calls return 1, 2, 4, ..., 512.
C6_NextDurationSequence ==
    \A t \in Timers :
        LET d == created[t].interval
            m == created[t].multiplier
        IN  /\ Len(durs[t]) = nd[t]
            /\ timer[t].multiplier = m
            /\ timer[t].interval = Grow(d, m, nd[t])
            /\ \A k \in 1..nd[t] :
                  /\ durs[t][k] = Grow(d, m, k - 1)
                  /\ m[2] = 1 => durs[t][k] = d * Power(m[1], k - 1)
                  /\ (d = 1 /\ m = <<2, 1>> /\ k <= 10) =>
                        durs[t][k] = PowersOfTwo[k]

\* the tenth call on a timer (1, 2) has returned 512 and left 1024
C6_Witness ==
    \E t \in Timers :
        /\ created[t] = NewExpTimer(1, <<2, 1>>)
        /\ nd[t] = 10
        /\ durs[t] = PowersOfTwo
        /\ timer[t].interval = 1024

\* C7: when an attempt signals retry and the check after it finds the
\* context done, Retry returns the context's error in that step: no sleep,
\* no NextDuration call, interval and multiplier unchanged, and retryFunc
\* is not invoked again by this call.
C7_DoneSkipsSleep ==
    [][\A p \in Procs :
          /\ (InRetry(p) /\ checks'[p] = checks[p] + 1 /\ ctxErr[p] # "nil") =>
                /\ pc'[p] = "done"
                /\ ret'[p] = ctxErr[p]
                /\ ret'[p] # "nil"
                /\ sleeps'[p] = sleeps[p]
                /\ calls'[p] = calls[p]
                /\ timer' = timer
                /\ nd' = nd
                /\ durs' = durs
          /\ Settled(p)]_vars

\* a call that slept once returned the context's error from its second
\* check, the timer advanced by that one sleep only
C7_Witness ==
    \E p \in Procs :
        /\ Returned(p) /\ isRetry[p]
        /\ checks[p] = 2 /\ calls[p] = 2 /\ Len(sleeps[p]) = 1
        /\ ret[p] = ctxErr[p] /\ ctxErr[p] # "nil"
        /\ startTimer[p].interval > 0
        /\ nd[tm[p]] = startND[p] + 1
        /\ timer[tm[p]].interval =
              MulTrunc(startTimer[p].interval, startTimer[p].multiplier)

\* C8: every return of Retry is one of three outcomes: nil, only when the
\* last invocation returned (false, nil); the operation's error, only when
\* the last invocation returned (false, e) with e non-nil; the context's
\* non-nil error, only when the last invocation signalled retry and the
\* check that followed found the context done.
C8_ThreeOutcomes ==
    \A p \in Procs :
        Returned(p) =>
            \/ ret[p] = "nil" /\ ~isRetry[p] /\ err[p] = "nil"
            \/ /\ ret[p] \in OpErrs \ {"nil"}
               /\ ~isRetry[p] /\ err[p] = ret[p]
            \/ /\ ret[p] \in CtxErrs \ {"nil"}
               /\ isRetry[p] /\ ctxErr[p] = ret[p]
               /\ checks[p] = calls[p]

\* the last attempt signalled retry with an error of its own and the call
\* returned the deadline error instead
C8_Witness ==
    \E p \in Procs :
        /\ Returned(p) /\ isRetry[p]
        /\ err[p] = "errA"
        /\ ret[p] = "DeadlineExceeded"

\* C9 as stated: after any invocation of retryFunc that returns a non-nil
\* error, Retry performs no further sleep and no further invocation.
C9_AnyErrorStops ==
    [][\A p \in Procs :
          (InRetry(p) /\ calls[p] >= 1 /\ err[p] # "nil" /\ NotEntering(p)) =>
              /\ calls'[p] = calls[p]
              /\ sleeps'[p] = sleeps[p]]_vars

\* C9 as amended: after any invocation of retryFunc that returns a non-nil
\* error together with shouldRetry = false, Retry performs no further sleep
\* and no further invocation (an error returned with shouldRetry = true is
\* not used: the loop goes on).
C9_ErrorWithStopStops ==
    [][\A p \in Procs :
          (/\ InRetry(p) /\ calls[p] >= 1 /\ NotEntering(p)
           /\ err[p] # "nil" /\ ~isRetry[p]) =>
              /\ pc[p] = "done" /\ pc'[p] = "done"
              /\ ret'[p] = err[p]
              /\ calls'[p] = calls[p]
              /\ sleeps'[p] = sleeps[p]]_vars

\* the third attempt returned (false, errB) and the call ended there, after
\* two sleeps
C9_Witness ==
    \E p \in Procs :
        /\ Returned(p) /\ ~isRetry[p]
        /\ err[p] = "errB" /\ ret[p] = "errB"
        /\ calls[p] = 3 /\ Len(sleeps[p]) = 2

\* C10 as stated: for two successive Retry calls on the same timer, the
\* first sleep of the second call lasts the interval the timer was
\* constructed with.
C10_SecondCallStartsOver ==
    \A p \in Procs :
        (InRetry(p) /\ retryCalls[tm[p]] >= 2 /\ Len(sleeps[p]) >= 1) =>
            sleeps[p][1] = created[tm[p]].interval

\* C10 as amended: the backoff state persists in the timer between Retry
\* calls: the first sleep of a later call lasts the interval the earlier
\* calls left, the constructed interval multiplied once for every
\* NextDuration call made on the timer before.
C10_SecondCallContinues ==
    \A p \in Procs :
        (InRetry(p) /\ Len(sleeps[p]) >= 1) =>
            /\ sleeps[p][1] = startTimer[p].interval
            /\ sleeps[p][1] = Grow(created[tm[p]].interval,
                                   created[tm[p]].multiplier, startND[p])

\* the second Retry call on a timer (1, 2) whose first call slept twice
\* starts with a sleep of 4
C10_Witness ==
    \E p \in Procs :
        /\ InRetry(p) /\ retryCalls[tm[p]] = 2
        /\ created[tm[p]] = NewExpTimer(1, <<2, 1>>)
        /\ startND[p] = 2
        /\ Len(sleeps[p]) >= 1 /\ sleeps[p][1] = 4

\* C14: cancellation is observed only at the check between an attempt and
\* the sleep that follows: a sleep that has started ends only by
\* time.Sleep returning, into the next attempt, also when the context
\* became done during it; Retry returns a context error only from that
\* check; and once the context is done at most one further invocation of
\* retryFunc begins before Retry returns, exactly one when the context
\* became done inside e.Sleep().
C14_CheckOnlyBetweenAttempts ==
    [][\A p \in Procs :
          InRetry(p) =>
              /\ (pc[p] = "sleeping" /\ pc'[p] # "sleeping") =>
                    (pc'[p] = "invoke" /\ sleeps'[p] = sleeps[p])
              /\ (pc[p] # "done" /\ pc'[p] = "done" /\ isRetry'[p]) =>
                    (pc[p] = "select" /\ ret'[p] = ctxErr[p])
              /\ (ctxErr'[p] # "nil" /\ NotEntering(p)) =>
                    /\ calls'[p] <= doneAt'[p].calls + 1
                    /\ (pc'[p] = "done" /\ doneAt'[p].pc = "sleep") =>
                          calls'[p] = doneAt'[p].calls + 1]_vars

\* the deadline passed during the second sleep; the sleep ran to its end,
\* one more attempt signalled retry and the check returned the error
C14_Witness ==
    \E p \in Procs :
        /\ Returned(p) /\ isRetry[p]
        /\ doneAt[p] = [calls |-> 2, pc |-> "sleep"]
        /\ calls[p] = 3 /\ Len(sleeps[p]) = 2
        /\ ret[p] = "DeadlineExceeded"

\* C16: the first attempt is made before any cancellation check and before
\* any sleep: a Retry call whose context is already done at the call still
\* invokes retryFunc exactly once, sleeps never, leaves the timer as it
\* was, and returns retryFunc's error if that attempt signals stop and the
\* context's error if it signals retry.
C16_FirstAttemptUnconditional ==
    \A p \in Procs :
        InRetry(p) =>
            /\ calls[p] = 0 => (checks[p] = 0 /\ sleeps[p] = << >>
                                /\ pc[p] = "invoke")
            /\ doneAt[p].pc = "entry" =>
                  /\ sleeps[p] = << >>
                  /\ timer[tm[p]] = startTimer[p]
                  /\ nd[tm[p]] = startND[p]
                  /\ calls[p] <= 1
                  /\ pc[p] = "done" =>
                        /\ calls[p] = 1
                        /\ ret[p] = IF isRetry[p] THEN ctxErr[p] ELSE err[p]
                        /\ isRetry[p] => ret[p] # "nil"

\* called with a cancelled context on a timer already advanced by an
\* earlier call: one attempt, signalling retry, then context.Canceled
C16_Witness ==
    \E p \in Procs :
        /\ Returned(p) /\ doneAt[p].pc = "entry"
        /\ startND[p] >= 1 /\ startTimer[p].interval > 1
        /\ calls[p] = 1 /\ isRetry[p] /\ err[p] = "errA"
        /\ ret[p] = "Canceled"
        /\ timer[tm[p]] = startTimer[p]

\* C13 as stated: for every multiplier >= 1 and every initial interval
\* >= 0, the interval after a NextDuration call is never smaller than
\* before it, so the returned durations are non-decreasing, also once the
\* product no longer fits the Duration's range.
C13_NeverSmaller ==
    \A t \in Timers :
        (created[t].interval >= 0 /\ created[t].multiplier[1] >= created[t].multiplier[2]) =>
            /\ \A k \in 1..(Len(durs[t]) - 1) : durs[t][k] <= durs[t][k + 1]
            /\ Len(durs[t]) >= 1 => durs[t][Len(durs[t])] <= timer[t].interval

\* C15 as stated: for every timer with interval > 0 and multiplier > 1,
\* non-integer multipliers such as 1.5 included, each sleep of a Retry call
\* is strictly longer than the sleep before it.
C15_StrictlyLonger ==
    \A p \in Procs :
        (/\ InRetry(p)
         /\ startTimer[p].interval > 0
         /\ startTimer[p].multiplier[1] > startTimer[p].multiplier[2]) =>
            \A i \in 1..(Len(sleeps[p]) - 1) : sleeps[p][i] < sleeps[p][i + 1]

\* C12: two Retry calls running at the same time on two separate timers
\* share no mutable state: for each of them the sleeps and the timer's
\* final interval are what they would be had the call run alone, i.e. the
\* i-th sleep is the start interval multiplied i - 1 times, the timer
\* advanced once per sleep and nobody else touched it.
C12_SeparateTimersIndependent ==
    \A p \in Procs :
        InRetry(p) =>
            /\ \A q \in Procs \ {p} : InRetry(q) => tm[q] # tm[p]
            /\ \A i \in 1..Len(sleeps[p]) :
                  sleeps[p][i] = Grow(startTimer[p].interval,
                                      startTimer[p].multiplier, i - 1)
            /\ timer[tm[p]].interval =
                  Grow(startTimer[p].interval, startTimer[p].multiplier,
                       Len(sleeps[p]))
            /\ timer[tm[p]].multiplier = startTimer[p].multiplier
            /\ durs[tm[p]] = sleeps[p]
            /\ ~raced[tm[p]]

\* g1 has slept twice on e1 and is asleep while g2, after one sleep on e2,
\* is in the middle of advancing e2
C12_Witness ==
    /\ pc["g1"] = "sleeping" /\ Len(sleeps["g1"]) = 2
    /\ pc["g2"] = "nd_store" /\ Len(sleeps["g2"]) = 1
    /\ tm["g1"] = "e1" /\ tm["g2"] = "e2"
    /\ timer["e1"].interval > created["e1"].interval
    /\ timer["e2"].interval > created["e2"].interval

\* C17 as stated: NextDuration is atomic for concurrent callers of one
\* timer: after n completed calls the interval is the constructed interval
\* multiplied n times, and the k-th call to complete returned the k-th
\* element of the backoff sequence, so no element is returned twice.
C17_Atomic ==
    \A t \in Timers :
        /\ timer[t].interval =
              Grow(created[t].interval, created[t].multiplier, nd[t])
        /\ \A k \in 1..Len(durs[t]) :
              durs[t][k] = Grow(created[t].interval, created[t].multiplier,
                                k - 1)

\* C17, amended: NextDuration is atomic only for calls that do not overlap.
\* As long as no two calls on the timer overlapped, n completed calls leave
\* the constructed interval multiplied n times and return the elements in
\* order.  Once calls overlap, updates can be lost: after n >= 1 completed
\* calls the interval is the constructed interval multiplied k times for
\* some 1 <= k <= n, and the j-th call to complete returns one of the
\* first j elements, possibly one that another call returned too.
C17_LostUpdateOnly ==
    \A t \in Timers :
        LET d == created[t].interval
            m == created[t].multiplier
        IN  /\ Len(durs[t]) = nd[t]
            /\ timer[t].multiplier = m
            /\ nd[t] = 0 => timer[t].interval = d
            /\ nd[t] >= 1 =>
                  \E k \in 1..nd[t] : timer[t].interval = Grow(d, m, k)
            /\ \A j \in 1..nd[t] :
                  \E k \in 0..(j - 1) : durs[t][j] = Grow(d, m, k)
            /\ ~raced[t] =>
                  /\ timer[t].interval = Grow(d, m, nd[t])
                  /\ \A j \in 1..nd[t] : durs[t][j] = Grow(d, m, j - 1)

\* a lost update on a timer built with (1ns, 2): two overlapping calls both
\* returned 1ns and left the interval at 2ns instead of 4ns
C17_Witness ==
    /\ created["e1"] = NewExpTimer(1, <<2, 1>>)
    /\ raced["e1"] /\ nd["e1"] = 2
    /\ durs["e1"] = <<1, 1>>
    /\ timer["e1"].interval = 2
    /\ pc["g1"] = "done" /\ pc["g2"] = "done"
    /\ op["g1"] = "NextDuration" /\ op["g2"] = "NextDuration"

\* C11: every call of the package-level Retry runs on a default timer of
\* its own (500ms, 1.5): its i-th sleep is the i-th NextDuration value of a
\* fresh default timer whatever earlier or concurrent package-level calls
\* did, and it returns what the timer's Retry method returns: the
\* operation's error on stop, the context's error when the context is seen
\* done.
C11_PkgRetryOnFreshTimer ==
    \A p \in Procs :
        InRetry(p) =>
            /\ tm[p] = Frame(p)
            /\ startTimer[p] = NewExpTimer(DefaultInitialInterval,
                                           DefaultMultiplier)
            /\ created[tm[p]] = startTimer[p]
            /\ \A q \in Procs \ {p} : tm[q] # tm[p]
            /\ durs[tm[p]] = sleeps[p]
            /\ \A i \in 1..Len(sleeps[p]) :
                  sleeps[p][i] = Grow(DefaultInitialInterval,
                                      DefaultMultiplier, i - 1)
            /\ Len(sleeps[p]) >= 1 => sleeps[p][1] = 500000000
            /\ Len(sleeps[p]) >= 2 => sleeps[p][2] = 750000000
            /\ pc[p] = "done" =>
                  ret[p] = IF isRetry[p] THEN ctxErr[p] ELSE err[p]

\* g1 is in its second package-level call and has slept 500ms and 750ms
\* again, while g2, in a call of its own, has slept 500ms once
C11_Witness ==
    /\ retryCalls[Frame("g1")] = 2 /\ InRetry("g1") /\ InRetry("g2")
    /\ sleeps["g1"] = <<500000000, 750000000>>
    /\ sleeps["g2"] = <<500000000>>
    /\ pc["g1"] = "sleeping" /\ pc["g2"] = "invoke"

====
